---- MODULE Spec2Model ----
(***************************************************************************)
(* Hacker News summary notifications: the per-story handler and the       *)
(* digest handler (src/api/hn.js), with the summary heuristic they share. *)
(*                                                                         *)
(* A text is a sequence of one-character strings.  A fixed literal of the *)
(* program that is never inspected character by character is a sequence   *)
(* of one element holding the literal.                                    *)
(***************************************************************************)
EXTENDS Integers, Sequences, FiniteSets, TLC

VARIABLES mode, envLimit, pc, ids, topIds, i, item, summary, sent, stories,
          body, response, request, itemReqs, fetched, articleReqs, posts,
          storyPos, page, result

vars == <<mode, envLimit, pc, ids, topIds, i, item, summary, sent, stories,
          body, response, request, itemReqs, fetched, articleReqs, posts,
          storyPos, page, result>>

(***************************************************************************)
(* Bounds of the model.                                                    *)
(***************************************************************************)
MaxLen == 3
MaxId == 2
MaxStrLen == 2
MaxLimit == 2

(***************************************************************************)
(* Program constants.                                                      *)
(***************************************************************************)
DefaultLimit == 10
DigestLimit == 10
MinWords == 20
MaxSentences == 2

Placeholder == <<"(No summary available)">>

(***************************************************************************)
(* String and array primitives of the language, as the code uses them.    *)
(***************************************************************************)
WhiteSpace == {" ", "\n"}

Min(a, b) == IF a < b THEN a ELSE b

Max(a, b) == IF a > b THEN a ELSE b

\* Array.prototype.slice / String.prototype.slice with (start, end).
Slice(s, start, end) ==
  LET len == Len(s)
      from == IF start < 0 THEN Max(len + start, 0) ELSE Min(start, len)
      to == IF end < 0 THEN Max(len + end, 0) ELSE Min(end, len)
  IN SubSeq(s, from + 1, to)

RECURSIVE DropLeading(_)
DropLeading(s) ==
  IF s # <<>> /\ Head(s) \in WhiteSpace THEN DropLeading(Tail(s)) ELSE s

RECURSIVE DropTrailing(_)
DropTrailing(s) ==
  IF s # <<>> /\ s[Len(s)] \in WhiteSpace
    THEN DropTrailing(SubSeq(s, 1, Len(s) - 1))
    ELSE s

\* String.prototype.trim
Trim(s) == DropTrailing(DropLeading(s))

\* s.split(/\s+/): cur is the piece being read, acc the pieces closed so far.
RECURSIVE SplitWSFrom(_, _, _, _)
SplitWSFrom(s, k, cur, acc) ==
  IF k > Len(s) THEN Append(acc, cur)
  ELSE IF s[k] \in WhiteSpace
    THEN IF k > 1 /\ s[k - 1] \in WhiteSpace
           THEN SplitWSFrom(s, k + 1, cur, acc)
           ELSE SplitWSFrom(s, k + 1, <<>>, Append(acc, cur))
    ELSE SplitWSFrom(s, k + 1, Append(cur, s[k]), acc)

SplitWS(s) == SplitWSFrom(s, 1, <<>>, <<>>)

\* s.split('. ')
RECURSIVE SplitDotSpaceFrom(_, _, _, _)
SplitDotSpaceFrom(s, k, cur, acc) ==
  IF k > Len(s) THEN Append(acc, cur)
  ELSE IF s[k] = "." /\ k < Len(s) /\ s[k + 1] = " "
    THEN SplitDotSpaceFrom(s, k + 2, <<>>, Append(acc, cur))
    ELSE SplitDotSpaceFrom(s, k + 1, Append(cur, s[k]), acc)

SplitDotSpace(s) == SplitDotSpaceFrom(s, 1, <<>>, <<>>)

\* Array.prototype.join
RECURSIVE Join(_, _)
Join(parts, sep) ==
  IF parts = <<>> THEN <<>>
  ELSE IF Len(parts) = 1 THEN parts[1]
  ELSE parts[1] \o sep \o Join(Tail(parts), sep)

(***************************************************************************)
(* The summary heuristic.  A page is the parsed document: the content     *)
(* attribute of the three description meta tags (has = FALSE when the tag *)
(* or the attribute is missing) and the text of the p elements in         *)
(* document order.                                                         *)
(***************************************************************************)
Truthy(m) == m.has /\ m.content # <<>>

\* The paragraph filter with > in place of >=.
LongEnoughStrict(p) == Len(SplitWS(p)) > MinWords

LongEnough(p) == Len(SplitWS(p)) >= MinWords

\* filter(Boolean)
MetaTagsOf(pg) == SelectSeq(<<pg.description, pg.og, pg.twitter>>, Truthy)

ParagraphsOf(pg) ==
  SelectSeq([k \in 1..Len(pg.paras) |-> Trim(pg.paras[k])], LongEnough)

FirstSentences(p) ==
  Join(Slice(SplitDotSpace(p), 0, MaxSentences), <<".", " ">>) \o <<".">>

SummaryOfHtml(pg) ==
  LET metaTags == MetaTagsOf(pg)
      paragraphs == ParagraphsOf(pg)
  IN IF Len(metaTags) > 0 THEN metaTags[1].content
     ELSE IF Len(paragraphs) > 0 THEN FirstSentences(paragraphs[1])
     ELSE <<>>

(***************************************************************************)
(* HTTP responses.  net is what the request came to: "neterr" (fetch       *)
(* rejects), "non2xx" (res.ok is false), "badbody" (reading or parsing the *)
(* body rejects) or "ok".                                                  *)
(***************************************************************************)
Null == [type |-> "null"]

Failures == {"neterr", "non2xx", "badbody"}

\* fetchJSON of the per-story handler: null on every failure.
fetchJSON(r) == IF r.net = "ok" THEN r.json ELSE Null

\* fetchJSON of the digest handler: throws on every failure.
fetchJSONDigest(r) == [threw |-> r.net # "ok", value |-> r.json]

\* extractSummary of the per-story handler: '' on every failure.
extractSummary(r) == IF r.net = "ok" THEN SummaryOfHtml(r.doc) ELSE <<>>

\* extractSummary of the digest handler: '' on a non-2xx response only.
extractSummaryDigest(r) ==
  [threw |-> r.net \in {"neterr", "badbody"},
   value |-> IF r.net = "ok" THEN SummaryOfHtml(r.doc) ELSE <<>>]

\* parseInt(process.env.STORY_LIMIT, 10) || 10
LIMIT(env) == IF ~env.set \/ env.val = 0 THEN DefaultLimit ELSE env.val

IsArray(v) == v.type = "array"

\* The skip test without its url half.
NoUrlNullOnly(it) == it.type = "null"

\* !item || !item.url
NoUrl(it) == it.type = "null" \/ ~it.hasUrl \/ it.url = <<>>

\* summary || '(No summary available)'
OrPlaceholder(sm) == IF sm = <<>> THEN Placeholder ELSE sm

Error500(msg) == [status |-> 500, json |-> [error |-> msg]]

(***************************************************************************)
(* Inputs: what the environment and the upstream services may answer.     *)
(***************************************************************************)
Ids == 1..MaxId

SeqsUpTo(S, n) == UNION {[1..k -> S] : k \in 0..n}

EnvLimits ==
  {[set |-> FALSE, val |-> 0]} \cup {[set |-> TRUE, val |-> n] : n \in -1..MaxLimit}

TopPayloads ==
  {[type |-> "array", val |-> a] : a \in SeqsUpTo(Ids, MaxLen)}
    \cup {[type |-> "string", val |-> a] : a \in SeqsUpTo(Ids, MaxStrLen)}
    \cup {Null, [type |-> "object", val |-> <<>>], [type |-> "number", val |-> <<>>]}

TopResponses ==
  {[net |-> f, json |-> Null] : f \in Failures}
    \cup {[net |-> "ok", json |-> j] : j \in TopPayloads}

TitleOf(id) == <<"t" \o ToString(id)>>

UrlOf(id) == <<"u" \o ToString(id)>>

\* Odd ids carry no score field, even ids a score.
ItemPayloads(id) ==
  {Null}
    \cup {[type |-> "object", title |-> TitleOf(id), hasUrl |-> h, url |-> u,
           hasScore |-> id % 2 = 0, score |-> id * 10] :
            <<h, u>> \in {<<FALSE, <<>> >>, <<TRUE, <<>> >>, <<TRUE, UrlOf(id)>>}}

ItemResponses(id) ==
  {[net |-> f, json |-> Null] : f \in Failures}
    \cup {[net |-> "ok", json |-> j] : j \in ItemPayloads(id)}

RECURSIVE Words(_, _)
Words(n, c) ==
  IF n = 0 THEN <<>> ELSE IF n = 1 THEN <<c>> ELSE <<c, " ">> \o Words(n - 1, c)

Sentence(n, c) == Words(n, c) \o <<".">>

NoMeta == [has |-> FALSE, content |-> <<>>]

Meta(c) == [has |-> TRUE, content |-> c]

\* "A. B. C." over more than MinWords words.
ParaABC == Sentence(10, "a") \o <<" ">> \o Sentence(10, "b") \o <<" ">> \o Sentence(5, "c")

\* Two sentences, one word short of MinWords.
ParaShort == Sentence(10, "s") \o <<" ">> \o Sentence(MinWords - 11, "t")

\* Exactly MinWords words, no period.
ParaExact == Words(MinWords, "e")

\* Exactly MinWords words in one sentence.
ParaOne == Sentence(MinWords, "o")

\* MinWords words behind leading and trailing white space, two spaces
\* after the first period.
ParaPadded ==
  <<" ", "\n">> \o Sentence(12, "p") \o <<" ", " ">> \o Sentence(MinWords - 12, "q")
    \o <<" ">>

\* MinWords - 1 words, two of them two spaces apart, white space at the end.
ParaSparse == Words(MinWords - 2, "x") \o <<" ", " ", "y", "\n">>

\* Four sentences, the break after the second one at the MinWords-th word.
ParaFour ==
  Sentence(1, "f") \o <<" ">> \o Sentence(MinWords - 2, "g") \o <<" ">>
    \o Sentence(1, "h") \o <<" ">> \o Sentence(1, "k")

ParaLists ==
  {<<>>, <<ParaShort>>, <<ParaABC>>, <<ParaShort, ParaABC>>, <<ParaABC, ParaExact>>,
   <<ParaExact, ParaABC>>, <<ParaOne>>, <<ParaPadded>>, <<ParaSparse>>,
   <<ParaSparse, ParaShort>>, <<ParaSparse, ParaFour, ParaOne>>}

MetaChoices(c) == {NoMeta, Meta(<<>>), Meta(<<c>>)}

Pages ==
  {[description |-> d, og |-> o, twitter |-> t, paras |-> ps] :
     d \in MetaChoices("D"), o \in MetaChoices("O"), t \in MetaChoices("T"),
     ps \in ParaLists}

EmptyPage == [description |-> NoMeta, og |-> NoMeta, twitter |-> NoMeta, paras |-> <<>>]

\* The pages the handlers meet: one with a meta description, one with a
\* qualifying paragraph only, one with nothing usable.
HandlerPages ==
  {[EmptyPage EXCEPT !.description = Meta(<<"D">>), !.paras = <<ParaABC>>],
   [EmptyPage EXCEPT !.paras = <<ParaShort, ParaABC>>],
   [EmptyPage EXCEPT !.og = Meta(<<>>), !.paras = <<ParaShort>>]}

ArticleResponsesOver(docs) ==
  {[net |-> f, doc |-> EmptyPage] : f \in Failures}
    \cup {[net |-> "ok", doc |-> d] : d \in docs}

RelayOutcomes == {"ok", "non2xx", "neterr"}

(***************************************************************************)
(* State.                                                                  *)
(*   mode, envLimit   which handler runs, and process.env.STORY_LIMIT      *)
(*   pc               the handler's position                               *)
(*   ids .. body      the handler's locals; item, summary and page (the    *)
(*                    article response) live for one loop iteration        *)
(*   request          the relay request in flight                          *)
(*   response         what the invocation answered                         *)
(*   itemReqs, fetched, articleReqs, posts, storyPos                       *)
(*                    the requests made so far and what they returned      *)
(*   result           the value extractSummary returned (summary runs)     *)
(***************************************************************************)
NoResponse == [status |-> 0, json |-> [pending |-> TRUE]]

NoRequest == [method |-> "none"]

NoPage == [net |-> "none", doc |-> EmptyPage]

Topic == "hn_daily_summaries"

Tags == "news"

Title == "Hacker News Top 10"

Idle ==
  /\ ids = Null /\ topIds = <<>> /\ i = 0 /\ item = Null /\ summary = <<>>
  /\ sent = 0 /\ stories = <<>> /\ body = <<>>
  /\ response = NoResponse /\ request = NoRequest
  /\ itemReqs = <<>> /\ fetched = <<>> /\ articleReqs = <<>> /\ posts = <<>>
  /\ storyPos = <<>> /\ result = <<>>

Init ==
  /\ mode \in {"story", "digest"}
  /\ envLimit \in (IF mode = "story" THEN EnvLimits ELSE {[set |-> FALSE, val |-> 0]})
  /\ pc = "start"
  /\ page = NoPage
  /\ Idle

history == <<itemReqs, fetched, articleReqs, posts, storyPos>>

(***************************************************************************)
(* The per-story handler.                                                  *)
(***************************************************************************)
\* Lines 108-115: the top stories, the array test, the truncation.
StoryFetchTop ==
  /\ mode = "story" /\ pc = "start"
  /\ \E r \in TopResponses :
       LET got == fetchJSON(r) IN
         /\ ids' = got
         /\ IF ~IsArray(got)
              THEN /\ response' = Error500("Failed to fetch top stories")
                   /\ pc' = "done"
                   /\ UNCHANGED <<topIds, i>>
              ELSE /\ topIds' = Slice(got.val, 0, LIMIT(envLimit))
                   /\ i' = 1
                   /\ pc' = "loop"
                   /\ UNCHANGED response
  /\ sent' = 0
  /\ UNCHANGED <<mode, envLimit, item, summary, stories, body, request, page,
                 result, history>>

\* Lines 116-118: the next id, its item, the skip of an item without a url.
StoryFetchItem ==
  /\ mode = "story" /\ pc = "loop" /\ i <= Len(topIds)
  /\ \E r \in ItemResponses(topIds[i]) :
       LET it == fetchJSON(r) IN
         /\ itemReqs' = Append(itemReqs, topIds[i])
         /\ fetched' = Append(fetched, [failed |-> r.net # "ok", item |-> it])
         /\ IF NoUrl(it)
              THEN i' = i + 1 /\ item' = Null /\ pc' = "loop"
              ELSE i' = i /\ item' = it /\ pc' = "summary"
  /\ UNCHANGED <<mode, envLimit, ids, topIds, summary, sent, stories, body,
                 response, request, articleReqs, posts, storyPos, page, result>>

\* Line 119.
StoryExtractSummary ==
  /\ mode = "story" /\ pc = "summary"
  /\ \E r \in ArticleResponsesOver(HandlerPages) :
       /\ page' = r
       /\ summary' = extractSummary(r)
  /\ articleReqs' = Append(articleReqs, [pos |-> i, url |-> item.url])
  /\ pc' = "send"
  /\ UNCHANGED <<mode, envLimit, ids, topIds, i, item, sent, stories, body,
                 response, request, itemReqs, fetched, posts, storyPos, result>>

\* Lines 121 and 90-99: the notification is built and posted.
StorySendIssue ==
  /\ mode = "story" /\ pc = "send"
  /\ LET story == [title |-> item.title, summary |-> OrPlaceholder(summary),
                   url |-> item.url]
     IN request' = [method |-> "POST", topic |-> Topic, Title |-> story.title,
                    Tags |-> Tags, Click |-> story.url,
                    body |-> story.summary \o <<"\n">> \o story.url]
  /\ posts' = Append(posts, [pos |-> i, outcome |-> "pending"])
  /\ pc' = "await"
  /\ UNCHANGED <<mode, envLimit, ids, topIds, i, item, summary, sent, stories,
                 body, response, itemReqs, fetched, articleReqs, storyPos, page,
                 result>>

\* sendNotification called outside a try block: a rejected request reaches
\* the catch of the handler.
StorySendCompleteNoCatch ==
  /\ mode = "story" /\ pc = "await"
  /\ \E o \in RelayOutcomes :
       /\ posts' = [posts EXCEPT ![Len(posts)].outcome = o]
       /\ IF o = "neterr"
            THEN /\ response' = Error500("Internal Server Error")
                 /\ pc' = "done"
                 /\ UNCHANGED <<sent, i, item, summary, page>>
            ELSE /\ sent' = sent + 1
                 /\ i' = i + 1 /\ item' = Null /\ summary' = <<>> /\ page' = NoPage
                 /\ pc' = "loop"
                 /\ UNCHANGED response
  /\ request' = NoRequest
  /\ UNCHANGED <<mode, envLimit, ids, topIds, stories, body, itemReqs, fetched,
                 articleReqs, storyPos, result>>

\* Lines 100-126: the relay answers or the request fails; either way the
\* story is counted and the loop goes on.
StorySendComplete ==
  /\ mode = "story" /\ pc = "await"
  /\ \E o \in RelayOutcomes :
       posts' = [posts EXCEPT ![Len(posts)].outcome = o]
  /\ request' = NoRequest
  /\ sent' = sent + 1
  /\ i' = i + 1 /\ item' = Null /\ summary' = <<>> /\ page' = NoPage
  /\ pc' = "loop"
  /\ UNCHANGED <<mode, envLimit, ids, topIds, stories, body, response, itemReqs,
                 fetched, articleReqs, storyPos, result>>

\* The answer reporting the length of the truncated list.
StoryRespondListLength ==
  /\ mode = "story" /\ pc = "loop" /\ i > Len(topIds)
  /\ response' = [status |-> 200, json |-> [success |-> TRUE, sent |-> Len(topIds)]]
  /\ pc' = "done"
  /\ UNCHANGED <<mode, envLimit, ids, topIds, i, item, summary, sent, stories,
                 body, request, page, result, history>>

\* Line 128.
StoryRespond ==
  /\ mode = "story" /\ pc = "loop" /\ i > Len(topIds)
  /\ response' = [status |-> 200, json |-> [success |-> TRUE, sent |-> sent]]
  /\ pc' = "done"
  /\ UNCHANGED <<mode, envLimit, ids, topIds, i, item, summary, sent, stories,
                 body, request, page, result, history>>

(***************************************************************************)
(* The digest handler.  Every exception reaches the one catch of the      *)
(* handler, which answers 500.                                             *)
(***************************************************************************)
DigestError == Error500("Failed to fetch or send stories")

\* item.score || 0
ScoreOf(it) == IF it.hasScore /\ it.score # 0 THEN it.score ELSE 0

\* The entry numbered by idx itself.
EntryTextZeroBased(idx, story) ==
  <<ToString(idx), ". ">> \o story.title
    \o <<" (score: ", ToString(story.score), ")", "\n", "   ">> \o story.summary
    \o <<"\n", "   ">> \o story.url \o <<"\n\n">>

\* Lines 65-69: one numbered entry of the digest text.
EntryText(idx, story) ==
  <<ToString(idx + 1), ". ">> \o story.title
    \o <<" (score: ", ToString(story.score), ")", "\n", "   ">> \o story.summary
    \o <<"\n", "   ">> \o story.url \o <<"\n\n">>

\* Lines 64-69: stories.forEach appends the entries, idx counting from 0.
RECURSIVE ComposeFrom(_, _)
ComposeFrom(sts, idx) ==
  IF idx >= Len(sts) THEN <<>>
  ELSE EntryText(idx, sts[idx + 1]) \o ComposeFrom(sts, idx + 1)

\* The entries taken from the last story to the first.
ComposeBodyReversed(sts) ==
  ComposeFrom([k \in 1..Len(sts) |-> sts[Len(sts) + 1 - k]], 0)

ComposeBody(sts) == ComposeFrom(sts, 0)

\* Lines 46-47: the top stories and ids.slice(0, 10), which exists on arrays
\* and on strings only.
DigestFetchTop ==
  /\ mode = "digest" /\ pc = "start"
  /\ \E r \in TopResponses :
       LET got == fetchJSONDigest(r) IN
         IF got.threw
           THEN /\ response' = DigestError /\ pc' = "done"
                /\ UNCHANGED <<ids, topIds, i>>
           ELSE /\ ids' = got.value
                /\ IF got.value.type \in {"array", "string"}
                     THEN /\ topIds' = Slice(got.value.val, 0, DigestLimit)
                          /\ i' = 1 /\ pc' = "loop"
                          /\ UNCHANGED response
                     ELSE /\ response' = DigestError /\ pc' = "done"
                          /\ UNCHANGED <<topIds, i>>
  /\ UNCHANGED <<mode, envLimit, item, summary, sent, stories, body, request,
                 page, result, history>>

\* Lines 51-53.
DigestFetchItem ==
  /\ mode = "digest" /\ pc = "loop" /\ i <= Len(topIds)
  /\ \E r \in ItemResponses(topIds[i]) :
       LET got == fetchJSONDigest(r) IN
         /\ itemReqs' = Append(itemReqs, topIds[i])
         /\ fetched' = Append(fetched, [failed |-> got.threw, item |-> got.value])
         /\ IF got.threw
              THEN /\ response' = DigestError /\ pc' = "done"
                   /\ UNCHANGED <<i, item>>
              ELSE /\ UNCHANGED response
                   /\ IF NoUrl(got.value)
                        THEN i' = i + 1 /\ item' = Null /\ pc' = "loop"
                        ELSE i' = i /\ item' = got.value /\ pc' = "summary"
  /\ UNCHANGED <<mode, envLimit, ids, topIds, summary, sent, stories, body,
                 request, articleReqs, posts, storyPos, page, result>>

\* Lines 54-60.
DigestExtractSummary ==
  /\ mode = "digest" /\ pc = "summary"
  /\ articleReqs' = Append(articleReqs, [pos |-> i, url |-> item.url])
  /\ \E r \in ArticleResponsesOver(HandlerPages) :
       LET got == extractSummaryDigest(r) IN
         IF got.threw
           THEN /\ response' = DigestError /\ pc' = "done"
                /\ page' = r
                /\ UNCHANGED <<stories, storyPos, i, item>>
           ELSE /\ stories' = Append(stories,
                       [title |-> item.title, url |-> item.url,
                        score |-> ScoreOf(item),
                        summary |-> OrPlaceholder(got.value)])
                /\ storyPos' = Append(storyPos, i)
                /\ i' = i + 1 /\ item' = Null /\ pc' = "loop"
                /\ UNCHANGED <<response, page>>
  /\ UNCHANGED <<mode, envLimit, ids, topIds, summary, sent, body, request,
                 itemReqs, fetched, posts, result>>

\* Lines 64-79: the digest is composed and posted.
DigestSendIssue ==
  /\ mode = "digest" /\ pc = "loop" /\ i > Len(topIds)
  /\ body' = ComposeBody(stories)
  /\ request' = [method |-> "POST", topic |-> Topic, Title |-> <<Title>>,
                 Tags |-> Tags, body |-> body']
  /\ posts' = Append(posts, [pos |-> 0, outcome |-> "pending"])
  /\ pc' = "await"
  /\ UNCHANGED <<mode, envLimit, ids, topIds, i, item, summary, sent, stories,
                 response, itemReqs, fetched, articleReqs, storyPos, page,
                 result>>

\* Lines 72-86: the answer of the relay is not looked at; a rejected
\* request is an exception.
DigestSendComplete ==
  /\ mode = "digest" /\ pc = "await"
  /\ \E o \in RelayOutcomes :
       /\ posts' = [posts EXCEPT ![Len(posts)].outcome = o]
       /\ response' = IF o = "neterr" THEN DigestError
                      ELSE [status |-> 200,
                            json |-> [success |-> TRUE, count |-> Len(stories)]]
  /\ request' = NoRequest
  /\ pc' = "done"
  /\ UNCHANGED <<mode, envLimit, ids, topIds, i, item, summary, sent, stories,
                 body, itemReqs, fetched, articleReqs, storyPos, page, result>>

Next ==
  \/ StoryFetchTop
  \/ StoryFetchItem
  \/ StoryExtractSummary
  \/ StorySendIssue
  \/ StorySendComplete
  \/ StoryRespond
  \/ DigestFetchTop
  \/ DigestFetchItem
  \/ DigestExtractSummary
  \/ DigestSendIssue
  \/ DigestSendComplete

Spec == Init /\ [][Next]_vars

(***************************************************************************)
(* extractSummary on its own, over a wider family of pages.               *)
(***************************************************************************)
InitSummary ==
  /\ mode = "summary"
  /\ envLimit = [set |-> FALSE, val |-> 0]
  /\ pc = "call"
  /\ page \in ArticleResponsesOver(Pages)
  /\ Idle

ApplyExtractSummary ==
  /\ mode = "summary" /\ pc = "call"
  /\ result' = extractSummary(page)
  /\ pc' = "returned"
  /\ UNCHANGED <<mode, envLimit, ids, topIds, i, item, summary, sent, stories,
                 body, response, request, page, history>>

NextSummary == ApplyExtractSummary

SpecSummary == InitSummary /\ [][NextSummary]_vars

(***************************************************************************)
(* Vocabulary of the properties.                                           *)
(***************************************************************************)
Done == pc = "done"

Succeeded == Done /\ response.status = 200

Errored == Done /\ response.status = 500 /\ "error" \in DOMAIN response.json

HasUrl(k) ==
  /\ k \in DOMAIN fetched
  /\ ~fetched[k].failed
  /\ fetched[k].item.type = "object"
  /\ fetched[k].item.hasUrl
  /\ fetched[k].item.url # <<>>

PostedPositions == {posts[p].pos : p \in DOMAIN posts}

ArticlePositions == {articleReqs[a].pos : a \in DOMAIN articleReqs}

StoryPositions == {storyPos[k] : k \in DOMAIN storyPos}

FailedPosts == {p \in DOMAIN posts : posts[p].outcome \in {"non2xx", "neterr"}}

Increasing(s) == \A a, b \in DOMAIN s : a < b => s[a] < s[b]

\* The entries of a digest text: each ends with the blank-line token.
EntryStarts(b) == {k \in 1..Len(b) : k = 1 \/ b[k - 1] = "\n\n"}

EntryStart(b, n) ==
  CHOOSE k \in EntryStarts(b) : Cardinality({j \in EntryStarts(b) : j < k}) = n - 1

EntryNumber(b, n) == b[EntryStart(b, n)]

EntryTitle(b, n) == <<b[EntryStart(b, n) + 2]>>

\* C1: when the top-stories request fails or its payload is not an array,
\* the invocation answers 500 with an error body, and no item request and
\* no relay POST is made.
C1_TopFailureAborts ==
  (pc # "start" /\ ~IsArray(ids)) =>
    (Errored /\ itemReqs = <<>> /\ posts = <<>>)

\* C2: a failed item fetch skips that story only: the run, when nothing else
\* fails, still requests every id of the truncated list, notifies the
\* stories that have a url, and answers 200.
C2_ItemFailureSkipsOnly ==
  (/\ Done /\ ids.type \in {"array", "string"}
   /\ \E k \in DOMAIN fetched : fetched[k].failed
   /\ page.net \notin {"neterr", "badbody"}
   /\ \A p \in DOMAIN posts : posts[p].outcome # "neterr")
    => /\ response.status = 200
       /\ itemReqs = topIds
       /\ \A k \in DOMAIN topIds :
            HasUrl(k) => k \in PostedPositions \cup StoryPositions

\* C3: no outcome of extractSummary stops the story it was called for from
\* being notified: the call returns, an empty result becomes the
\* placeholder, and the loop goes on.
C3_SummaryNeverBlocks ==
  /\ \A k \in ArticlePositions :
       \/ k \in PostedPositions \cup StoryPositions
       \/ pc = "send" /\ k = i
  /\ pc = "await" /\ mode = "story" =>
       /\ page.net # "ok" => summary = <<>>
       /\ request.body = OrPlaceholder(summary) \o <<"\n">> \o item.url
       /\ summary = <<>> => request.body = Placeholder \o <<"\n">> \o item.url
  /\ \A k \in DOMAIN stories : stories[k].summary # <<>>

\* C4: a relay delivery failure never stops the run.  Per story: after a
\* failed delivery the loop is still running or has answered 200, and at
\* the end every later story with a url has had its delivery attempt.
\* Digest: a non-2xx answer of the relay ends in a 200 response.
C4_DeliveryFailureNeverStops ==
  /\ mode = "story" =>
       \A p \in FailedPosts :
         /\ Done => response.status = 200
         /\ Done => \A k \in DOMAIN topIds :
                      (k > posts[p].pos /\ HasUrl(k)) => k \in PostedPositions
         /\ ~Done => pc \in {"loop", "summary", "send", "await"}
  /\ mode = "digest" =>
       \A p \in DOMAIN posts :
         posts[p].outcome = "non2xx" => Succeeded

C4_Witness ==
  /\ mode = "story" /\ Succeeded
  /\ \E p, q \in DOMAIN posts :
       /\ p < q
       /\ posts[p].outcome = "neterr"
       /\ \E r \in DOMAIN posts : r < q /\ posts[r].outcome = "non2xx"

\* C5: a story whose metadata is null or has no non-empty url is never
\* given to extractSummary, never in the digest's stories or text, and never
\* the subject of a relay POST; every article fetch and every per-story
\* notification is for a position whose fetched metadata had that url.
C5_NoUrlNeverEnrichedOrNotified ==
  /\ \A a \in DOMAIN articleReqs :
       /\ HasUrl(articleReqs[a].pos)
       /\ articleReqs[a].url = fetched[articleReqs[a].pos].item.url
       /\ articleReqs[a].url # <<>>
  /\ mode = "story" =>
       /\ \A p \in DOMAIN posts : HasUrl(posts[p].pos)
       /\ pc = "await" =>
            /\ request.Click = fetched[i].item.url
            /\ request.Click # <<>>
  /\ mode = "digest" =>
       /\ Len(storyPos) = Len(stories)
       /\ \A k \in DOMAIN stories :
            /\ HasUrl(storyPos[k])
            /\ stories[k].url = fetched[storyPos[k]].item.url
       /\ posts # <<>> =>
            Cardinality(EntryStarts(body)) =
              Cardinality({k \in DOMAIN fetched : HasUrl(k)})

C5_Witness ==
  /\ Succeeded /\ posts # <<>> /\ articleReqs # <<>>
  /\ \E k, l \in DOMAIN fetched :
       /\ fetched[k].item.type = "object" /\ ~fetched[k].item.hasUrl
       /\ fetched[l].item.type = "object" /\ fetched[l].item.hasUrl
       /\ fetched[l].item.url = <<>>

\* C6: with STORY_LIMIT = L >= 0 the item requests of a per-story run are
\* exactly the first min(L, length) ids of the upstream list, in order.
C6_LimitTruncates ==
  (mode = "story" /\ Done /\ IsArray(ids) /\ envLimit.set /\ envLimit.val >= 0)
    => itemReqs = SubSeq(ids.val, 1, Min(envLimit.val, Len(ids.val)))

\* C7 as stated: a per-story run that answers 200 reports sent equal to the
\* number of ids in the truncated list.
C7_SentCountsEveryId ==
  (mode = "story" /\ Succeeded) => response.json.sent = Len(topIds)

\* C7 amended: sent counts the delivery attempts, one per id whose metadata
\* was fetched with a non-empty url, whatever the relay answered and
\* whatever the summary extraction returned; the loop always goes on, so a
\* run that answers 200 has requested every id and reports that count.
C7_SentCountsAttempts ==
  mode = "story" =>
    /\ sent = Cardinality({p \in DOMAIN posts : posts[p].outcome # "pending"})
    /\ pc \in {"loop", "done"} /\ IsArray(ids) =>
         sent = Cardinality({k \in DOMAIN fetched : HasUrl(k)})
    /\ Succeeded =>
         /\ itemReqs = topIds
         /\ response.json.sent = Cardinality({k \in DOMAIN topIds : HasUrl(k)})
         /\ response.json.sent = Len(posts)

C7_Witness ==
  /\ mode = "story" /\ Succeeded
  /\ FailedPosts # {}
  /\ \E a \in DOMAIN articleReqs : TRUE
  /\ response.json.sent = 2
  /\ Len(topIds) = 3

\* C8: a digest run that answers 200 has made exactly one relay POST, issued
\* after every item fetch and every summary extraction of the run, also
\* when no story was enriched; the text has one entry per enriched story,
\* numbered 1..n, and the reported count is n.
C8_DigestPostsOnce ==
  mode = "digest" =>
    /\ posts # <<>> =>
         /\ Len(posts) = 1
         /\ itemReqs = topIds
         /\ \A k \in DOMAIN topIds : HasUrl(k) => k \in ArticlePositions
         /\ Len(stories) = Len(articleReqs)
         /\ pc \in {"await", "done"}
    /\ pc = "await" => request.body = body
    /\ Succeeded =>
         /\ Len(posts) = 1
         /\ posts[1].outcome \in {"ok", "non2xx"}
         /\ response.json.count = Len(stories)
         /\ Cardinality(EntryStarts(body)) = Len(stories)
         /\ \A n \in 1..Len(stories) : EntryNumber(body, n) = ToString(n)

C8_Witness ==
  /\ mode = "digest" /\ Succeeded
  /\ Len(posts) = 1
  /\ response.json.count = 3
  /\ EntryNumber(body, 3) = "3"

C8_WitnessEmpty ==
  /\ mode = "digest" /\ Succeeded
  /\ Len(posts) = 1 /\ response.json.count = 0 /\ body = <<>>
  /\ Len(topIds) > 0

(***************************************************************************)
(* The summary as the specification words it, read off the page without   *)
(* the steps of the code.                                                  *)
(***************************************************************************)
NonEmptyMeta(m) == m.has /\ Len(m.content) > 0

WordStarts(p) ==
  {k \in 1..Len(p) : p[k] \notin WhiteSpace /\ (k = 1 \/ p[k - 1] \in WhiteSpace)}

Inked(p) == {k \in 1..Len(p) : p[k] \notin WhiteSpace}

Lowest(S) == CHOOSE k \in S : \A j \in S : k <= j

Highest(S) == CHOOSE k \in S : \A j \in S : k >= j

Stripped(p) == IF Inked(p) = {} THEN <<>> ELSE SubSeq(p, Lowest(Inked(p)), Highest(Inked(p)))

Qualifying(pg) ==
  {k \in 1..Len(pg.paras) : Cardinality(WordStarts(pg.paras[k])) >= MinWords}

Breaks(t) == {k \in 1..(Len(t) - 1) : t[k] = "." /\ t[k + 1] = " "}

TwoSegments(t) ==
  IF Cardinality(Breaks(t)) < MaxSentences THEN t \o <<".">>
  ELSE SubSeq(t, 1, Lowest(Breaks(t) \ {Lowest(Breaks(t))}) - 1) \o <<".">>

ClaimedSummary(pg) ==
  IF NonEmptyMeta(pg.description) THEN pg.description.content
  ELSE IF NonEmptyMeta(pg.og) THEN pg.og.content
  ELSE IF NonEmptyMeta(pg.twitter) THEN pg.twitter.content
  ELSE IF Qualifying(pg) # {}
    THEN TwoSegments(Stripped(pg.paras[Lowest(Qualifying(pg))]))
  ELSE <<>>

C10_OrderPreserved ==
  /\ mode = "story" =>
       /\ Increasing([p \in DOMAIN posts |-> posts[p].pos])
       /\ \A p \in DOMAIN posts : p < Len(posts) => posts[p].outcome # "pending"
       /\ pc = "await" =>
            /\ posts[Len(posts)].pos = i
            /\ request.Title = TitleOf(topIds[i])
            /\ request.Click = UrlOf(topIds[i])
  /\ mode = "digest" =>
       /\ Increasing(storyPos)
       /\ \A k \in DOMAIN stories : stories[k].title = TitleOf(topIds[storyPos[k]])
       /\ posts # <<>> =>
            /\ Cardinality(EntryStarts(body)) = Len(storyPos)
            /\ \A n \in DOMAIN storyPos :
                 /\ EntryNumber(body, n) = ToString(n)
                 /\ EntryTitle(body, n) = TitleOf(topIds[storyPos[n]])

C10_Witness ==
  /\ mode = "digest" /\ Succeeded
  /\ storyPos = <<1, 3>>
  /\ topIds[1] # topIds[3]
  /\ EntryTitle(body, 2) = TitleOf(topIds[3])

C10_WitnessStory ==
  /\ mode = "story" /\ pc = "await"
  /\ Len(posts) = 2 /\ posts[1].pos = 1 /\ posts[2].pos = 3
  /\ topIds[1] # topIds[3]

====
